---- MODULE Spec2Model ----
(***************************************************************************)
(* Model of id90travel_hotels/main.py: the sitemap locator                 *)
(* (extract_sitemap_urls), the sitemap processor (process_sitemap with its *)
(* nested _is_hotel_detail_url and _parse_hotel_detail_url) and the        *)
(* pipeline driver (main).                                                 *)
(*                                                                         *)
(* Python strings are sequences of one-character strings, so that the      *)
(* regular expressions and pathlib's splitting are computed character by   *)
(* character.  pathlib.Path is modelled as PurePosixPath.                  *)
(***************************************************************************)
EXTENDS Integers, Sequences, FiniteSets, TLC

VARIABLES
  pc,           \* where main is: Start, Locate, Process, Serialize, Done, Failed
  client,       \* the HTTP client of main.py:95: "none", "open" or "closed"
  clients,      \* number of Client() objects constructed so far
  requests,     \* every client.get so far: its URL, its client, its response
  sitemap_urls, \* main's sitemap_urls
  hotels,       \* main's accumulating list
  idx,          \* position of the for loop of main.py:98 in sitemap_urls
  file,         \* the output file: whether it exists, and its content
  prior,        \* the output file as it was before the run
  pending,      \* what json.dump has still to write
  opened,       \* whether the run has opened the output file for writing
  failure,      \* the exception that ended the run, "" when there is none
  arg,          \* argument of the function under test (function specifications)
  ret,          \* outcome of the last call of the function under test
  called        \* name of the function called last, "" before any call

run == <<pc, client, clients, requests, sitemap_urls, hotels, idx, file, prior,
         pending, opened, failure>>
harness == <<arg, ret, called>>
vars == <<pc, client, clients, requests, sitemap_urls, hotels, idx, file, prior,
          pending, opened, failure, arg, ret, called>>

-----------------------------------------------------------------------------
(* Bounds of the model *)

\* longest text appended to a URL head when function inputs are enumerated
MaxTail == 5

-----------------------------------------------------------------------------
(* String literals of the source *)

\* main.py:32
ROBOTS_URL ==
  <<"h","t","t","p","s",":","/","/","w","w","w",".","i","d","9","0","t","r",
    "a","v","e","l",".","c","o","m","/","r","o","b","o","t","s",".","t","x",
    "t">>

\* main.py:53, the literal part of the hotel detail page pattern
HOTEL_PREFIX ==
  <<"h","t","t","p","s",":","/","/","w","w","w",".","i","d","9","0","t","r",
    "a","v","e","l",".","c","o","m","/","h","o","t","e","l","s","/","d","e",
    "t","a","i","l","s","/">>

\* main.py:33, the literal part of the sitemap pattern before "_?\d*"
SITEMAP_BASE ==
  <<"h","t","t","p","s",":","/","/","w","w","w",".","i","d","9","0","t","r",
    "a","v","e","l",".","c","o","m","/","s","i","t","e","m","a","p","s","/",
    "s","i","t","e","m","a","p","_","h","o","t","e","l","_","d","e","t","a",
    "i","l","s">>

\* main.py:33, the literal part of the sitemap pattern after "_?\d*"
DOT_XML ==
  <<".","x","m","l">>

UNDERSCORE == "_"
Digits == {"0", "1", "2", "3", "4", "5", "6", "7", "8", "9"}

\* the components Path(url).parts yields for the literal part of the pattern
SCHEME ==
  <<"h","t","t","p","s",":">>
HOST ==
  <<"w","w","w",".","i","d","9","0","t","r","a","v","e","l",".","c","o","m">>
HOTELS ==
  <<"h","o","t","e","l","s">>
DETAILS ==
  <<"d","e","t","a","i","l","s">>

NL == "\n"
SLASH == "/"
DOT == "."

\* elem.text of an element without text content (main.py:80)
None == <<"<None>">>

-----------------------------------------------------------------------------
(* Outcomes of a call: a returned value or a raised exception *)

Return(v) == [exc |-> "", val |-> v]
Raise(e) == [exc |-> e, val |-> <<>>]

-----------------------------------------------------------------------------
(* Sequence helpers *)

StartsWith(s, p) == Len(s) >= Len(p) /\ SubSeq(s, 1, Len(p)) = p
Drop(s, n) == SubSeq(s, n + 1, Len(s))

\* index of the first occurrence of character c in s, 0 when there is none
IndexOf(s, c) ==
  IF \E i \in 1..Len(s) : s[i] = c
  THEN CHOOSE i \in 1..Len(s) : s[i] = c /\ \A j \in 1..(i - 1) : s[j] # c
  ELSE 0

\* str.split(c)
RECURSIVE Split(_, _)
Split(s, c) ==
  LET i == IndexOf(s, c)
  IN IF i = 0 THEN <<s>> ELSE <<SubSeq(s, 1, i - 1)>> \o Split(Drop(s, i), c)

-----------------------------------------------------------------------------
(* HTTP responses *)

Response(status, text) == [status |-> status, text |-> text]

\* Response.raise_for_status() raises for a client or server error status
is_error(r) == r.status >= 400

-----------------------------------------------------------------------------
(* extract_sitemap_urls *)

\* lit occurs in text at position i
LiteralAt(text, i, lit) ==
  /\ i + Len(lit) - 1 <= Len(text)
  /\ SubSeq(text, i, i + Len(lit) - 1) = lit

\* "\d*": the position after the longest run of digits that starts at i
RECURSIVE SkipDigits(_, _)
SkipDigits(text, i) ==
  IF i <= Len(text) /\ text[i] \in Digits THEN SkipDigits(text, i + 1) ELSE i

\* The pattern at main.py:33 tried at position i: the position after the
\* match, 0 when it does not match there.  "_?" and "\d*" are greedy; giving
\* a character back never helps, since the next pattern character is the
\* literal ".", which is neither "_" nor a digit.
SitemapMatchEnd(text, i) ==
  IF ~LiteralAt(text, i, SITEMAP_BASE) THEN 0
  ELSE LET j0 == i + Len(SITEMAP_BASE)
           j1 == IF j0 <= Len(text) /\ text[j0] = UNDERSCORE THEN j0 + 1 ELSE j0
           j2 == SkipDigits(text, j1)
       IN IF LiteralAt(text, j2, DOT_XML) THEN j2 + Len(DOT_XML) ELSE 0

\* re.findall(pattern, text) from position pos: the leftmost position at
\* or after pos where the pattern matches gives the next match, and the scan
\* resumes after that match (main.py:36)
RECURSIVE re_findall_from(_, _)
re_findall_from(text, pos) ==
  LET hits == {p \in pos..Len(text) : SitemapMatchEnd(text, p) # 0}
  IN IF hits = {} THEN <<>>
     ELSE LET p == CHOOSE p \in hits : \A q \in hits : p <= q
              e == SitemapMatchEnd(text, p)
          IN <<SubSeq(text, p, e - 1)>> \o re_findall_from(text, e)

\* s without the elements that repeat an earlier one
RECURSIVE Unique(_)
Unique(s) ==
  IF s = <<>> THEN <<>>
  ELSE LET n == Len(s)
           r == Unique(SubSeq(s, 1, n - 1))
       IN IF \E j \in 1..(n - 1) : s[j] = s[n] THEN r ELSE Append(r, s[n])

\* a locator that removes repeated matches
re_findall_unique(text) == Unique(re_findall_from(text, 1))

re_findall(text) == re_findall_from(text, 1)

\* main.py:27-37 applied to the response of client.get(url)
extract_sitemap_urls(r) ==
  IF is_error(r) THEN Raise("HTTPStatusError") ELSE Return(re_findall(r.text))

-----------------------------------------------------------------------------
(* process_sitemap's nested functions *)

\* ".+$" of the pattern at main.py:53: one or more characters other than a
\* line feed, then the end of the string or a line feed that ends the string
DotPlusEnd(rest) ==
  \E k \in 1..Len(rest) :
    /\ \A j \in 1..k : rest[j] # NL
    /\ \/ k = Len(rest)
       \/ k = Len(rest) - 1 /\ rest[Len(rest)] = NL

\* re.match(pattern, url) at main.py:53-54, as a truth value
re_match_hotel_detail(url) ==
  StartsWith(url, HOTEL_PREFIX) /\ DotPlusEnd(Drop(url, Len(HOTEL_PREFIX)))

\* a filter that treats a missing text as a text that does not match
_is_hotel_detail_url_none_safe(url) ==
  IF url # None /\ re_match_hotel_detail(url) THEN Return(TRUE) ELSE Return(FALSE)

\* main.py:46-58; re.match raises TypeError when handed None
_is_hotel_detail_url(url) ==
  IF url = None THEN Raise("TypeError")
  ELSE IF re_match_hotel_detail(url) THEN Return(TRUE) ELSE Return(FALSE)

\* the root PurePosixPath splits off: "//" for exactly two leading slashes
posix_root(s) ==
  IF ~StartsWith(s, <<SLASH>>) THEN <<>>
  ELSE IF StartsWith(s, <<SLASH, SLASH>>) /\ ~StartsWith(s, <<SLASH, SLASH, SLASH>>)
       THEN <<<<SLASH, SLASH>>>>
       ELSE <<<<SLASH>>>>

\* a splitter that keeps every piece between slashes, as str.split does
Path_parts_str_split(s) ==
  Split(s, SLASH)

\* Path(url).parts: the root, then the pieces between slashes that are
\* neither empty nor "."
Path_parts(s) ==
  posix_root(s) \o SelectSeq(Split(s, SLASH), LAMBDA p : p # <<>> /\ p # <<DOT>>)

Hotel(id, name, destination) == [id |-> id, name |-> name, destination |-> destination]

\* main.py:60-70; parts[-k] raises IndexError when there are fewer than k parts
_parse_hotel_detail_url(url) ==
  LET parts == Path_parts(url)
      n == Len(parts)
  IN IF n < 3 THEN Raise("IndexError")
     ELSE Return(Hotel(parts[n], parts[n - 1], parts[n - 2]))

-----------------------------------------------------------------------------
(* process_sitemap *)

\* The body of a sitemap response: whether it parses as XML and, if so, the
\* elements below the root in document order, each with its qualified tag
\* and its text.
Document(wellformed, elements) == [wellformed |-> wellformed, elements |-> elements]
Element(tag, text) == [tag |-> tag, text |-> text]

\* {http://www.sitemaps.org/schemas/sitemap/0.9}loc, what ".//default:loc"
\* selects (main.py:75-79)
LOC == "{http://www.sitemaps.org/schemas/sitemap/0.9}loc"

Indices(s) == 1..Len(s)

\* main.py:79-83 on a parsed document.  The comprehensions run to the end or
\* stop at the first exception a nested function raises.
process_elements(elements) ==
  LET matches == SelectSeq(elements, LAMBDA e : e.tag = LOC)
      urls == [i \in Indices(matches) |-> matches[i].text]
  IN IF \E i \in Indices(urls) : _is_hotel_detail_url(urls[i]).exc # ""
     THEN Raise("TypeError")
     ELSE LET valid_urls == SelectSeq(urls, LAMBDA u : _is_hotel_detail_url(u).val)
              parsed == [i \in Indices(valid_urls) |->
                           _parse_hotel_detail_url(valid_urls[i])]
          IN IF \E i \in Indices(parsed) : parsed[i].exc # ""
             THEN Raise("IndexError")
             ELSE Return([i \in Indices(parsed) |-> parsed[i].val])

\* a processor that takes a body it cannot parse for an empty sitemap
process_sitemap_lenient(r) ==
  IF is_error(r) THEN Raise("HTTPStatusError")
  ELSE IF ~r.text.wellformed THEN Return(<<>>)
  ELSE process_elements(r.text.elements)

\* main.py:40-83 applied to the response of client.get(url)
process_sitemap(r) ==
  IF is_error(r) THEN Raise("HTTPStatusError")
  ELSE IF ~r.text.wellformed THEN Raise("ParseError")
  ELSE process_elements(r.text.elements)

-----------------------------------------------------------------------------
(* Function specification: one <loc> text through the filter and the       *)
(* field extraction                                                        *)

TailChars == {SLASH, DOT, NL, "a", "b"}

RECURSIVE SeqsUpTo(_, _)
SeqsUpTo(S, n) ==
  IF n = 0 THEN {<<>>}
  ELSE LET shorter == SeqsUpTo(S, n - 1)
       IN shorter \cup {Append(s, c) : s \in {t \in shorter : Len(t) = n - 1}, c \in S}

UrlHeads ==
  { HOTEL_PREFIX,
    SubSeq(HOTEL_PREFIX, 1, Len(HOTEL_PREFIX) - 1),
    [HOTEL_PREFIX EXCEPT ![12] = "x"],
    <<" ">> \o HOTEL_PREFIX }

UrlTexts == {h \o t : h \in UrlHeads, t \in SeqsUpTo(TailChars, MaxTail)}

\* main has not started
RunIdle ==
  /\ pc = "Start"
  /\ client = "none"
  /\ clients = 0
  /\ requests = <<>>
  /\ sitemap_urls = <<>>
  /\ hotels = <<>>
  /\ idx = 1
  /\ file = [exists |-> FALSE, content |-> <<>>]
  /\ prior = file
  /\ pending = <<>>
  /\ opened = FALSE
  /\ failure = ""

InitUrl ==
  /\ RunIdle
  /\ arg \in UrlTexts
  /\ ret = Return(<<>>)
  /\ called = ""

CallIsHotelDetailUrl ==
  /\ called = ""
  /\ ret' = _is_hotel_detail_url(arg)
  /\ called' = "_is_hotel_detail_url"
  /\ UNCHANGED <<arg, run>>

\* main.py:81-82: only the URLs the filter kept are parsed
CallParseHotelDetailUrl ==
  /\ called = "_is_hotel_detail_url"
  /\ ret = Return(TRUE)
  /\ ret' = _parse_hotel_detail_url(arg)
  /\ called' = "_parse_hotel_detail_url"
  /\ UNCHANGED <<arg, run>>

NextUrl == CallIsHotelDetailUrl \/ CallParseHotelDetailUrl

SpecUrl == InitUrl /\ [][NextUrl]_vars

-----------------------------------------------------------------------------
(* Claims about the field extraction *)

\* the text after the literal part of the pattern
UrlTail(url) == Drop(url, Len(HOTEL_PREFIX))

\* url is https://www.id90travel.com/hotels/details/<destination>/<name>/<id>
\* with three non-empty segments
IsDetailForm(url) ==
  /\ StartsWith(url, HOTEL_PREFIX)
  /\ LET segs == Split(UrlTail(url), SLASH)
     IN Len(segs) = 3 /\ \A k \in 1..3 : segs[k] # <<>>

\* C4: for every URL https://www.id90travel.com/hotels/details/<destination>/
\* <name>/<id> with three non-empty trailing segments, the record built from
\* it has id = last segment, name = second-to-last segment and destination =
\* third-to-last segment.
C4_RecordFromTrailingSegments ==
  (called = "_parse_hotel_detail_url" /\ IsDetailForm(arg)) =>
    LET segs == Split(UrlTail(arg), SLASH)
    IN ret = Return(Hotel(segs[3], segs[2], segs[1]))

\* the segments that follow /hotels/details/ in a URL the filter kept
FollowingSegments(url) ==
  SelectSeq(Split(UrlTail(url), SLASH), LAMBDA p : p # <<>> /\ p # <<DOT>>)

\* C9: every URL that passes the hotel detail page filter has at least three
\* path segments as the extractor splits it, so building the record never
\* fails; when fewer than three segments follow /hotels/details/, a record is
\* still produced, its missing fields taken from the preceding segments
\* 'details', 'hotels' and the host name.
C9_ShortUrlTakesPrecedingSegments ==
  called = "_parse_hotel_detail_url" =>
    LET f == FollowingSegments(arg)
        k == Len(f)
    IN /\ Len(Path_parts(arg)) >= 3
       /\ ret.exc = ""
       /\ k = 0 => ret.val = Hotel(DETAILS, HOTELS, HOST)
       /\ k = 1 => ret.val = Hotel(f[1], DETAILS, HOTELS)
       /\ k = 2 => ret.val = Hotel(f[2], f[1], DETAILS)
       /\ k >= 3 => ret.val = Hotel(f[k], f[k - 1], f[k - 2])

\* a kept URL with nothing but slashes after /hotels/details/ has produced a
\* record whose destination is the host name
C9_Witness ==
  /\ called = "_parse_hotel_detail_url"
  /\ Len(FollowingSegments(arg)) = 0
  /\ ret.exc = ""
  /\ ret.val.destination = HOST

-----------------------------------------------------------------------------
(* Function specification: extract_sitemap_urls on one robots.txt response *)

\* most pieces a robots.txt body is assembled from
MaxChunks == 4

RobotsChunks ==
  { SITEMAP_BASE,
    [SITEMAP_BASE EXCEPT ![23] = "x"],
    <<UNDERSCORE>>,
    <<"1">>,
    DOT_XML,
    <<"a", "x", "m", "l">>,
    <<NL>> }

RECURSIVE Concat(_)
Concat(ss) == IF ss = <<>> THEN <<>> ELSE Head(ss) \o Concat(Tail(ss))

RobotsBodies == {Concat(cs) : cs \in SeqsUpTo(RobotsChunks, MaxChunks)}

RobotsResponses ==
  {Response(200, b) : b \in RobotsBodies}
    \cup {Response(st, <<>>) : st \in {404, 500}}

InitLocator ==
  /\ RunIdle
  /\ arg \in RobotsResponses
  /\ ret = Return(<<>>)
  /\ called = ""

CallExtractSitemapUrls ==
  /\ called = ""
  /\ ret' = extract_sitemap_urls(arg)
  /\ called' = "extract_sitemap_urls"
  /\ UNCHANGED <<arg, run>>

NextLocator == CallExtractSitemapUrls

SpecLocator == InitLocator /\ [][NextLocator]_vars

\* s is a whole match of the sitemap pattern: the base, an optional
\* underscore, any number of digits, then ".xml"
IsSitemapUrl(s) ==
  /\ Len(s) >= Len(SITEMAP_BASE) + Len(DOT_XML)
  /\ StartsWith(s, SITEMAP_BASE)
  /\ Drop(s, Len(s) - Len(DOT_XML)) = DOT_XML
  /\ LET mid == SubSeq(s, Len(SITEMAP_BASE) + 1, Len(s) - Len(DOT_XML))
     IN \A k \in 1..Len(mid) :
          mid[k] \in Digits \/ (k = 1 /\ mid[k] = UNDERSCORE)

\* the positions of text at which a substring matching the pattern starts
MatchStarts(text) ==
  {i \in 1..Len(text) :
     \E j \in (i + Len(SITEMAP_BASE))..Len(text) : IsSitemapUrl(SubSeq(text, i, j))}

\* the substrings of text that match the pattern, by position of appearance
MatchingSubstrings(text) ==
  LET starts == MatchStarts(text)
      n == Cardinality(starts)
      at == CHOOSE f \in [1..n -> starts] : \A a, b \in 1..n : a < b => f[a] < f[b]
  IN [k \in 1..n |->
        LET j == CHOOSE j \in (at[k] + Len(SITEMAP_BASE))..Len(text) :
                   IsSitemapUrl(SubSeq(text, at[k], j))
        IN SubSeq(text, at[k], j)]

-----------------------------------------------------------------------------
(* Function specification: process_sitemap on one sitemap response *)

\* most elements of a sitemap document
MaxElements == 3

PARIS_URL ==
  HOTEL_PREFIX \o <<"P","a","r","i","s","/","G","r","a","n","d","-","H","o","t",
                    "e","l","/","1","2","3","4","5">>

LocTexts ==
  { PARIS_URL,
    HOTEL_PREFIX \o <<"a", "/", "b", "/", "7">>,
    HOTEL_PREFIX \o <<"b">>,
    HOTEL_PREFIX,
    <<" ">> \o PARIS_URL,
    SubSeq(HOTEL_PREFIX, 1, Len(HOTEL_PREFIX) - Len(DETAILS) - 1) \o <<"s","e","a","r","c","h">>,
    HOTEL_PREFIX \o <<"a", "/", "b", "/", "7", NL, " ">>,
    None }

SitemapElements ==
  {Element(LOC, t) : t \in LocTexts}
    \cup {Element("{http://www.sitemaps.org/schemas/sitemap/0.9}lastmod", PARIS_URL)}

SitemapResponses ==
  {Response(200, Document(TRUE, es)) : es \in SeqsUpTo(SitemapElements, MaxElements)}
    \cup {Response(200, Document(FALSE, <<>>))}
    \cup {Response(st, Document(FALSE, <<>>)) : st \in {404, 500}}

InitSitemap ==
  /\ RunIdle
  /\ arg \in SitemapResponses
  /\ ret = Return(<<>>)
  /\ called = ""

CallProcessSitemap ==
  /\ called = ""
  /\ ret' = process_sitemap(arg)
  /\ called' = "process_sitemap"
  /\ UNCHANGED <<arg, run>>

NextSitemap == CallProcessSitemap

SpecSitemap == InitSitemap /\ [][NextSitemap]_vars

\* text starts with https://www.id90travel.com/hotels/details/ followed by at
\* least one character
StartsWithDetailPrefix(text) ==
  StartsWith(text, HOTEL_PREFIX) /\ Len(text) > Len(HOTEL_PREFIX)

\* the texts of the <loc> elements of a response, in document order
LocTextsOf(r) ==
  LET locs == SelectSeq(r.text.elements, LAMBDA e : e.tag = LOC)
  IN [i \in Indices(locs) |-> locs[i].text]

\* C3: for every sitemap XML document, process_sitemap keeps a <loc> entry if
\* and only if its text starts with https://www.id90travel.com/hotels/details/
\* followed by at least one character; every other <loc> entry is dropped
\* without error and produces no record.
C3_KeepsExactlyDetailUrls ==
  (called = "process_sitemap" /\ ~is_error(arg) /\ arg.text.wellformed) =>
    LET kept == SelectSeq(LocTextsOf(arg), StartsWithDetailPrefix)
    IN /\ ret.exc = ""
       /\ ret.val = [i \in Indices(kept) |-> _parse_hotel_detail_url(kept[i]).val]

-----------------------------------------------------------------------------
(* main *)

\* dataclasses.asdict(hotel), main.py:101
asdict(hotel) == [id |-> hotel.id, name |-> hotel.name, destination |-> hotel.destination]

\* One piece of text json.dump writes: punctuation, or a whole object.  The
\* indentation that indent=4 adds is part of the punctuation.
Punct(t) == [tok |-> t, obj |-> Hotel(<<>>, <<>>, <<>>)]
Object(d) == [tok |-> "{}", obj |-> d]

\* an encoder that writes nothing for an empty list
json_chunks_skip_empty(dicts) ==
  IF dicts = <<>> THEN <<>>
  ELSE <<Punct("[")>>
         \o [k \in 1..(2 * Len(dicts) - 1) |->
              IF k % 2 = 1 THEN Object(dicts[(k + 1) \div 2]) ELSE Punct(",")]
         \o <<Punct("]")>>

\* what json.dump(hotels_as_dicts, f, indent=4) writes, piece by piece
\* (main.py:103): "[]" for an empty list, else the objects between brackets,
\* separated by commas
json_chunks(dicts) ==
  IF dicts = <<>> THEN <<Punct("[]")>>
  ELSE <<Punct("[")>>
         \o [k \in 1..(2 * Len(dicts) - 1) |->
              IF k % 2 = 1 THEN Object(dicts[(k + 1) \div 2]) ELSE Punct(",")]
         \o <<Punct("]")>>

\* a file opened for appending keeps its content
open_a(f) == [exists |-> TRUE, content |-> f.content]

\* open(output_filepath, "w"), main.py:102: the file is created or truncated
open_w(f) == [exists |-> TRUE, content |-> <<>>]

\* a client that stays open when the with block is left
client_exit_leak(c) == c

\* Client.__exit__ at the end of the with block of main.py:95, however the
\* block is left
client_exit(c) == "closed"

\* the for loop of main.py:98 is exhausted
loop_done(k, urls) == k > Len(urls)

\* a loop that skips every second element
for_next_skip(k) == k + 2

\* the for loop of main.py:98 moves to the next element
for_next(k) == k + 1

Request(url, r) == [url |-> url, client |-> clients, response |-> r]

\* an exception leaves the with block of main.py:95 and ends the run
Abort(e) ==
  /\ pc' = "Failed"
  /\ failure' = e
  /\ client' = client_exit(client)

-----------------------------------------------------------------------------
(* What the network and the file system hold *)

\* most lines of a robots.txt body of a run
MaxLines == 2

NUMBERED_SITEMAP == SITEMAP_BASE \o <<UNDERSCORE, "1">> \o DOT_XML

RobotsLines ==
  { <<"D", "i", "s", "a", "l", "l", "o", "w", ":", " ", "/", NL>>,
    <<"S", "i", "t", "e", "m", "a", "p", ":", " ">> \o SITEMAP_BASE \o DOT_XML \o <<NL>>,
    <<"S", "i", "t", "e", "m", "a", "p", ":", " ">> \o NUMBERED_SITEMAP \o <<NL>> }

RobotsReplies ==
  {Response(200, Concat(ls)) : ls \in SeqsUpTo(RobotsLines, MaxLines)}
    \cup {Response(st, <<>>) : st \in {404, 500}}

SitemapReplies ==
  { Response(200, Document(TRUE, <<>>)),
    Response(200, Document(TRUE, <<Element(LOC, PARIS_URL)>>)),
    Response(200, Document(TRUE,
      << Element(LOC, HOTEL_PREFIX \o <<"a", "/", "b", "/", "7">>),
         Element(LOC, SubSeq(HOTEL_PREFIX, 1, Len(HOTEL_PREFIX) - 1)),
         Element(LOC, HOTEL_PREFIX \o <<"b">>) >>)),
    Response(200, Document(TRUE, <<Element(LOC, PARIS_URL), Element(LOC, None)>>)),
    Response(200, Document(FALSE, <<>>)),
    Response(404, Document(FALSE, <<>>)),
    Response(500, Document(FALSE, <<>>)) }

PriorFiles ==
  { [exists |-> FALSE, content |-> <<>>],
    [exists |-> TRUE, content |-> json_chunks(<<asdict(Hotel(<<"9">>, <<"o", "l", "d">>, <<"x">>))>>)] }

-----------------------------------------------------------------------------
(* The run of main *)

HarnessIdle ==
  /\ arg = <<>>
  /\ ret = Return(<<>>)
  /\ called = ""

Init ==
  /\ pc = "Start"
  /\ client = "none"
  /\ clients = 0
  /\ requests = <<>>
  /\ sitemap_urls = <<>>
  /\ hotels = <<>>
  /\ idx = 1
  /\ prior \in PriorFiles
  /\ file = prior
  /\ pending = <<>>
  /\ opened = FALSE
  /\ failure = ""
  /\ HarnessIdle

\* main.py:95, entering the with block
EnterClient ==
  /\ pc = "Start"
  /\ clients' = clients + 1
  /\ client' = "open"
  /\ pc' = "Locate"
  /\ UNCHANGED <<requests, sitemap_urls, hotels, idx, file, prior, pending,
                 opened, failure, harness>>

\* main.py:96-97
Locate ==
  /\ pc = "Locate"
  /\ \E r \in RobotsReplies :
       LET out == extract_sitemap_urls(r)
       IN /\ requests' = Append(requests, Request(ROBOTS_URL, r))
          /\ IF out.exc # ""
             THEN /\ Abort(out.exc)
                  /\ UNCHANGED <<sitemap_urls, hotels, idx>>
             ELSE /\ sitemap_urls' = out.val
                  /\ hotels' = <<>>
                  /\ idx' = 1
                  /\ pc' = "Process"
                  /\ UNCHANGED <<client, failure>>
  /\ UNCHANGED <<clients, file, prior, pending, opened, harness>>

\* main.py:98-99, one iteration of the loop
ProcessNext ==
  /\ pc = "Process"
  /\ ~loop_done(idx, sitemap_urls)
  /\ \E r \in SitemapReplies :
       LET out == process_sitemap(r)
       IN /\ requests' = Append(requests, Request(sitemap_urls[idx], r))
          /\ IF out.exc # ""
             THEN /\ Abort(out.exc)
                  /\ UNCHANGED <<hotels, idx>>
             ELSE /\ hotels' = hotels \o out.val
                  /\ idx' = for_next(idx)
                  /\ UNCHANGED <<pc, client, failure>>
  /\ UNCHANGED <<clients, sitemap_urls, file, prior, pending, opened, harness>>

\* main.py:101-102, after the loop: the records become dicts and the output
\* file is opened, which truncates it, or cannot be opened
OpenOutput ==
  /\ pc = "Process"
  /\ loop_done(idx, sitemap_urls)
  /\ \/ /\ file' = open_w(file)
        /\ opened' = TRUE
        /\ pending' = json_chunks([k \in Indices(hotels) |-> asdict(hotels[k])])
        /\ pc' = "Serialize"
        /\ UNCHANGED <<client, failure>>
     \/ /\ Abort("OSError")
        /\ UNCHANGED <<file, opened, pending>>
  /\ UNCHANGED <<clients, requests, sitemap_urls, hotels, idx, prior, harness>>

\* main.py:103, json.dump writes its next piece, or the write fails
WriteChunk ==
  /\ pc = "Serialize"
  /\ pending # <<>>
  /\ \/ /\ file' = [file EXCEPT !.content = Append(@, Head(pending))]
        /\ pending' = Tail(pending)
        /\ UNCHANGED <<pc, client, failure>>
     \/ /\ Abort("OSError")
        /\ UNCHANGED <<file, pending>>
  /\ UNCHANGED <<clients, requests, sitemap_urls, hotels, idx, prior, opened,
                 harness>>

\* main.py:102-103 and 95: json.dump has returned, both with blocks are left
CloseOutput ==
  /\ pc = "Serialize"
  /\ pending = <<>>
  /\ client' = client_exit(client)
  /\ pc' = "Done"
  /\ UNCHANGED <<clients, requests, sitemap_urls, hotels, idx, file, prior,
                 pending, opened, failure, harness>>

Next ==
  \/ EnterClient
  \/ Locate
  \/ ProcessNext
  \/ OpenOutput
  \/ WriteChunk
  \/ CloseOutput

Spec == Init /\ [][Next]_vars

-----------------------------------------------------------------------------
(* Claims about the run *)

\* the k-th request got an error status
FetchFailed(k) == is_error(requests[k].response)

\* the k-th request fetched a sitemap whose body is not well-formed XML
ParseFailed(k) ==
  /\ k >= 2
  /\ ~is_error(requests[k].response)
  /\ ~requests[k].response.text.wellformed

\* the robots.txt fetch and one fetch per listed sitemap have been made, and
\* none failed
AllFetchedAndParsed ==
  /\ Len(requests) = 1 + Len(sitemap_urls)
  /\ \A k \in Indices(requests) : ~FetchFailed(k) /\ ~ParseFailed(k)

\* the records of the sitemaps fetched by requests 2..n, in fetch order
RECURSIVE RecordsUpTo(_)
RecordsUpTo(n) ==
  IF n < 2 THEN <<>>
  ELSE RecordsUpTo(n - 1) \o process_sitemap(requests[n].response).val

\* the output file holding exactly the serialized list of records
FileOf(records) ==
  [exists |-> TRUE,
   content |-> json_chunks([k \in Indices(records) |-> asdict(records[k])])]

C2_OutputIsConcatenationInOrder ==
  pc = "Done" =>
    /\ sitemap_urls = re_findall_from(requests[1].response.text, 1)
    /\ Len(requests) = 1 + Len(sitemap_urls)
    /\ \A k \in Indices(sitemap_urls) : requests[k + 1].url = sitemap_urls[k]
    /\ hotels = RecordsUpTo(Len(requests))
    /\ file = FileOf(RecordsUpTo(Len(requests)))

\* a run over a sitemap URL listed twice has ended, both fetches gave
\* records, and the output file existed before
C2_Witness ==
  /\ pc = "Done"
  /\ Len(sitemap_urls) = 2
  /\ sitemap_urls[1] = sitemap_urls[2]
  /\ process_sitemap(requests[2].response).val # <<>>
  /\ process_sitemap(requests[3].response).val # <<>>
  /\ prior.exists

\* the order of the run's phases, and the exits an exception takes
PhaseEdges ==
  { <<"Start", "Locate">>, <<"Locate", "Process">>, <<"Process", "Serialize">>,
    <<"Serialize", "Done">>,
    <<"Locate", "Failed">>, <<"Process", "Failed">>, <<"Serialize", "Failed">> }

FetchOrder ==
  /\ pc \in {"Start", "Locate"} <=> requests = <<>>
  /\ requests # <<>> => requests[1].url = ROBOTS_URL
  /\ Len(requests) <= 1 + Len(sitemap_urls)
  /\ \A k \in 2..Len(requests) : requests[k].url = sitemap_urls[k - 1]
  /\ \A k \in 2..Len(requests) : requests[k].url # ROBOTS_URL
  /\ opened =>
       /\ Len(requests) = 1 + Len(sitemap_urls)
       /\ \A k \in 2..Len(requests) : process_sitemap(requests[k].response).exc = ""

PhaseStep ==
  /\ pc' # pc => <<pc, pc'>> \in PhaseEdges
  /\ requests' # requests =>
       /\ Len(requests') = Len(requests) + 1
       /\ SubSeq(requests', 1, Len(requests)) = requests
  /\ opened => requests' = requests

\* C6: the run follows Start -> Locate -> Process -> Serialize -> Done (an
\* exception ends it from Locate, Process or Serialize): robots.txt is fetched
\* exactly once and before any sitemap; each sitemap URL of the Locator's
\* list is fetched once per occurrence, in list order, with no retry; and the
\* output file is opened only after the last sitemap was processed
\* successfully.
C6_LinearRun == []FetchOrder /\ [][PhaseStep]_vars

\* a run over two sitemaps has ended after three requests
C6_Witness ==
  /\ pc = "Done"
  /\ Len(sitemap_urls) = 2
  /\ Len(requests) = 3
  /\ opened

\* C7: main acquires exactly one HTTP client for the run, every request goes
\* through that client while it is open, and the client is released in every
\* terminal state: after normal completion and after an abort caused by a
\* failed fetch, a parse failure or a failed file write.
C7_OneClientAlwaysReleased ==
  /\ clients <= 1
  /\ pc # "Start" => clients = 1
  /\ \A k \in Indices(requests) : requests[k].client = 1
  /\ pc \in {"Locate", "Process", "Serialize"} => client = "open"
  /\ pc \in {"Done", "Failed"} => client = "closed"

\* a write to the output file has failed and the client is closed
C7_Witness ==
  /\ pc = "Failed"
  /\ failure = "OSError"
  /\ opened
  /\ file.content # <<>>
  /\ client = "closed"

\* robots.txt was fetched successfully and holds no match of the pattern
NoSitemapListed ==
  /\ requests # <<>>
  /\ ~is_error(requests[1].response)
  /\ MatchStarts(requests[1].response.text) = {}

\* C8: when robots.txt is fetched successfully but contains no substring
\* matching the sitemap pattern, the run makes no sitemap fetch, still
\* writes the output file, and the file's content is an empty JSON array.
C8_NoSitemapGivesEmptyArray ==
  NoSitemapListed =>
    /\ Len(requests) = 1
    /\ sitemap_urls = <<>>
    /\ failure \in {"", "OSError"}
    /\ pc = "Serialize" => file.content \o pending = <<Punct("[]")>>
    /\ pc = "Done" => file = [exists |-> TRUE, content |-> <<Punct("[]")>>]

\* such a run has ended and replaced an existing output file
C8_Witness ==
  /\ NoSitemapListed
  /\ pc = "Done"
  /\ prior.exists
  /\ file # prior

\* the k-th request fetched a well-formed sitemap with a <loc> without text
HasEmptyLoc(k) ==
  /\ k >= 2
  /\ ~is_error(requests[k].response)
  /\ requests[k].response.text.wellformed
  /\ \E n \in Indices(requests[k].response.text.elements) :
       requests[k].response.text.elements[n] = Element(LOC, None)

\* C10: a sitemap that is well-formed XML but contains a <loc> element with
\* no text makes process_sitemap fail while filtering (TypeError), so the
\* whole run aborts with no output file written, instead of the entry being
\* dropped.
C10_EmptyLocAbortsRun ==
  \A k \in Indices(requests) :
    HasEmptyLoc(k) =>
      /\ process_sitemap(requests[k].response) = Raise("TypeError")
      /\ k = Len(requests)
      /\ pc = "Failed"
      /\ failure = "TypeError"
      /\ ~opened
      /\ file = prior

\* a sitemap with a matching entry followed by an empty <loc> has ended the
\* run
C10_Witness ==
  /\ Len(requests) >= 2
  /\ HasEmptyLoc(Len(requests))
  /\ requests[Len(requests)].response.text.elements[1] = Element(LOC, PARIS_URL)
  /\ pc = "Failed"

====
